---- MODULE Spec2Model ----
(***************************************************************************)
(* Model of src/models/tacotron2.py: the Tacotron2 synthesizer module.     *)
(*                                                                         *)
(* A tensor is a record [shape, val, by]: its shape, a sequence of integer *)
(* digests standing for its contents (concatenation appends digests,       *)
(* element-wise arithmetic acts on them), and the component that made it.  *)
(* One instance of the class is modelled; every method is one action, and  *)
(* the record `last' keeps what the most recent call did: its arguments,   *)
(* the ordered log of the components it invoked, the error it raised and   *)
(* the tuple it returned.                                                  *)
(***************************************************************************)
EXTENDS Integers, Sequences, FiniteSets, TLC

\* ---------------------------------------------------------------- bounds
\* token time dimension, text_lengths values (up to MaxTime + 1), mel frames
MaxTime == 2
\* parameter values a decoder's weights may take
MaxParam == 2
\* the speaker counts a model is built with: one speaker, several speakers
SpeakerCounts == {1, 3}
\* batch sizes of the calls
BatchSizes == {1}

\* ------------------------------------------------------ program constants
encoder_dim == 512
speaker_embedding_dim == 512
postnet_output_dim == 80
decoder_output_dim == 80
\* Decoder's step budget and stop decision threshold (TTS.layers.tacotron2)
max_steps == 3
stop_threshold == 5

decoder_dim(n) == IF n > 1 THEN 512 + speaker_embedding_dim ELSE 512

\* ---------------------------------------------------------------- values
\* Python's None, and an attribute that was never assigned
NoneT == [shape |-> <<>>, val |-> <<>>, by |-> "None"]
NoAttr == [shape |-> <<>>, val |-> <<>>, by |-> "noattr"]

IsTensor(x) == x.by \notin {"None", "noattr"}

Tensor(s, v, b) == [shape |-> s, val |-> v, by |-> b]

RECURSIVE SumSeq(_)
SumSeq(s) == IF s = <<>> THEN 0 ELSE Head(s) + SumSeq(Tail(s))

RECURSIVE MaxSeq(_)
MaxSeq(s) == IF Len(s) = 1 THEN s[1]
             ELSE LET m == MaxSeq(Tail(s)) IN IF Head(s) > m THEN Head(s) ELSE m

\* order-sensitive digest of a sequence
RECURSIVE Weighted(_, _)
Weighted(s, i) == IF s = <<>> THEN 0 ELSE i * Head(s) + Weighted(Tail(s), i + 1)

Reverse(s) == [i \in 1..Len(s) |-> s[Len(s) + 1 - i]]

\* x.transpose(1, 2) of a rank-3 tensor
transpose12(x) == [x EXCEPT !.shape = <<x.shape[1], x.shape[3], x.shape[2]>>]

\* torch.flip(x, dims=(1,)): the time axis reversed
flip1(x) == [x EXCEPT !.val = Reverse(x.val)]

\* ------------------------------------------------------- external layers
\* self.embedding(characters): (B, T) -> (B, T, 512)
embedding(characters) ==
    Tensor(<<characters.shape[1], characters.shape[2], 512>>,
           <<SumSeq(characters.val)>>, "embedding")

\* self.speaker_embedding(speaker_ids): (B,) -> (B, D), one row per sample
speaker_embedding(speaker_ids) ==
    Tensor(<<speaker_ids.shape[1], speaker_embedding_dim>>,
           [i \in 1..Len(speaker_ids.val) |-> 10 * (speaker_ids.val[i] + 1)],
           "speaker_embedding")

\* sequence_mask(text_lengths): row i is true below text_lengths[i]; the width
\* is taken from the lengths alone, the only argument forward passes
sequence_mask(text_lengths) ==
    Tensor(<<text_lengths.shape[1], MaxSeq(text_lengths.val)>>,
           text_lengths.val, "sequence_mask")

\* Encoder: (B, 512, T) -> (B, T, 512)
Encoder(embedded_inputs) ==
    Tensor(<<embedded_inputs.shape[1], embedded_inputs.shape[3], encoder_dim>>,
           <<2 * embedded_inputs.val[1] + 1>>, "encoder")

\* Postnet: same shape as its input
Postnet(x) == Tensor(x.shape, [i \in 1..Len(x.val) |-> 2 * x.val[i] + 1], "postnet")

\* a + b, element-wise
TensorAdd(a, b) ==
    Tensor(a.shape, [i \in 1..Len(a.val) |-> a.val[i] + b.val[i]], "add")

\* Decoder.forward (teacher forcing) with weights p: one frame per target frame
\* returns <<decoder_outputs (B, 80, T_out), alignments (B, T_out, T_in),
\*           stop_tokens (B, T_out)>>
DecoderForward(p, who, encoder_outputs, mel_specs, mask) ==
    LET B == encoder_outputs.shape[1]
        Tin == encoder_outputs.shape[2]
        Tout == mel_specs.shape[2]
        d == 1000 * p + 7 * Weighted(encoder_outputs.val, 1) + Weighted(mel_specs.val, 1)
    IN  << Tensor(<<B, decoder_output_dim, Tout>>, <<d>>, who),
           Tensor(<<B, Tout, Tin>>, <<d + 1>>, who),
           Tensor(<<B, Tout>>, [t \in 1..Tout |-> IF t = Tout THEN stop_threshold ELSE 0], who) >>

\* Decoder.inference with weights p: autoregressive stepping.  stopAt is the
\* step whose stop score first reaches the threshold (0: none ever does).  The
\* loop ends after the step that crosses, or after max_steps steps.
RECURSIVE DecoderSteps(_, _)
DecoderSteps(stopAt, scores) ==
    LET t == Len(scores) + 1
        score == IF t = stopAt THEN stop_threshold ELSE stop_threshold - 1
        out == Append(scores, score)
    IN  IF score >= stop_threshold THEN out
        ELSE IF Len(out) = max_steps THEN out
        ELSE DecoderSteps(stopAt, out)

DecoderInference(p, encoder_outputs, stopAt) ==
    LET B == encoder_outputs.shape[1]
        Tin == encoder_outputs.shape[2]
        scores == DecoderSteps(stopAt, <<>>)
        Tout == Len(scores)
        d == 1000 * p + 7 * Weighted(encoder_outputs.val, 1) + Tout
    IN  << Tensor(<<B, decoder_output_dim, Tout>>, <<d>>, "decoder"),
           Tensor(<<B, Tout, Tin>>, <<d + 1>>, "decoder"),
           Tensor(<<B, Tout>>, scores, "decoder") >>

\* --------------------------------------------------------------- the class
VARIABLES
    num_speakers,            \* self.num_speakers
    bidirectional_decoder,   \* self.bidirectional_decoder
    speaker_embeddings,      \* self.speaker_embeddings, the cached vector
    decoder_backward,        \* self.decoder_backward: a reference, 0 if unset
    heap,                    \* reference -> weights of the module it names
    twin_heap,               \* the heap of a second instance, see Init
    last                     \* the most recent call

vars == <<num_speakers, bidirectional_decoder, speaker_embeddings,
          decoder_backward, heap, twin_heap, last>>

\* self.decoder: the reference of the forward decoder
decoder == 1
\* the weights the Decoder constructor leaves in a new decoder
DecoderInitParams == 1

\* a plain assignment in place of the deep copy: the same object
alias(ref) == ref

\* copy.deepcopy(module): a new object, the weights copied into it
deepcopy(ref) == ref + 1

\* hasattr(self, "speaker_embedding")
has_speaker_embedding == num_speakers > 1

\* _compute_speaker_embedding: lookup, then unsqueeze_(1): (B, D) -> (B, 1, D)
_compute_speaker_embedding(speaker_ids) ==
    LET e == speaker_embedding(speaker_ids)
    IN  [e EXCEPT !.shape = <<e.shape[1], 1, e.shape[2]>>]

\* compute_speaker_embedding without its check of a missing speaker id
compute_speaker_embedding_unchecked(cache, speaker_ids) ==
    IF has_speaker_embedding /\ IsTensor(speaker_ids)
    THEN [raised |-> FALSE, cache |-> _compute_speaker_embedding(speaker_ids)]
    ELSE [raised |-> FALSE, cache |-> cache]

\* compute_speaker_embedding that keeps a vector already cached
compute_speaker_embedding_memo(cache, speaker_ids) ==
    IF has_speaker_embedding /\ ~IsTensor(speaker_ids)
    THEN [raised |-> TRUE, cache |-> cache]
    ELSE IF has_speaker_embedding /\ IsTensor(speaker_ids)
    THEN [raised |-> FALSE,
          cache |-> IF IsTensor(cache) THEN cache
                    ELSE _compute_speaker_embedding(speaker_ids)]
    ELSE [raised |-> FALSE, cache |-> cache]

\* compute_speaker_embedding: [raised, cache]
compute_speaker_embedding(cache, speaker_ids) ==
    IF has_speaker_embedding /\ ~IsTensor(speaker_ids)
    THEN [raised |-> TRUE, cache |-> cache]
    ELSE IF has_speaker_embedding /\ IsTensor(speaker_ids)
    THEN [raised |-> FALSE, cache |-> _compute_speaker_embedding(speaker_ids)]
    ELSE [raised |-> FALSE, cache |-> cache]

\* _init_states: the cache after it
_init_states == NoneT

\* _add_speaker_embedding: expand over time, then add
_add_speaker_embedding(outputs, spk) ==
    Tensor(outputs.shape,
           [i \in 1..Len(outputs.val) |-> outputs.val[i] + SumSeq(spk.val)], "add_speaker")

\* the fusion done by addition, with the signature of the concatenation
fuse_by_addition(outputs, spk) == _add_speaker_embedding(outputs, spk)

\* _concat_speaker_embedding: expand over time, then concatenate on the last axis
_concat_speaker_embedding(outputs, spk) ==
    Tensor(<<outputs.shape[1], outputs.shape[2], outputs.shape[3] + spk.shape[3]>>,
           outputs.val \o spk.val, "concat_speaker")

\* shape_outputs: both mel tensors transposed, alignments untouched
shape_outputs(mel_outputs, mel_outputs_postnet, alignments) ==
    <<transpose12(mel_outputs), transpose12(mel_outputs_postnet), alignments>>

\* _backward_inference on the heap h
_backward_inference(h, mel_specs, encoder_outputs, mask) ==
    LET o == DecoderForward(h[decoder_backward], "decoder_backward",
                            encoder_outputs, flip1(mel_specs), mask)
    IN  <<transpose12(o[1]), o[2]>>

\* the postnet's output taken as the refined output, nothing added
residual_dropped(mel_outputs, postnet_outputs) == postnet_outputs

\* the residual sum of lines 87 and 120: raw + postnet(raw)
residual(mel_outputs, postnet_outputs) == TensorAdd(mel_outputs, postnet_outputs)

\* the speaker fusion of lines 81-83, 114-116 and 137-139
fuse_speaker(encoder_outputs, cache) ==
    IF num_speakers > 1
    THEN _concat_speaker_embedding(encoder_outputs, cache)
    ELSE encoder_outputs

\* the backward decoder's outputs returned in the forward outputs' places
forward_return_mixed(o, backward) ==
    IF bidirectional_decoder
    THEN <<backward[1], o[2], backward[2], o[4], o[1], o[3]>>
    ELSE <<o[1], o[2], o[3], o[4]>>

\* the tuple forward returns (lines 90-93)
forward_return(o, backward) ==
    IF bidirectional_decoder
    THEN <<o[1], o[2], o[3], o[4], backward[1], backward[2]>>
    ELSE <<o[1], o[2], o[3], o[4]>>

\* the stop tokens left out of the tuple
inference_return_no_stop(mel_outputs, mel_outputs_postnet, alignments, stop_tokens) ==
    <<mel_outputs, mel_outputs_postnet, alignments>>

\* the tuple inference returns (line 123)
inference_return(mel_outputs, mel_outputs_postnet, alignments, stop_tokens) ==
    <<mel_outputs, mel_outputs_postnet, alignments, stop_tokens>>

\* ------------------------------------------------------------ call records
\* what a call leaves behind; a stage fills in what it reached
Call(op, characters, text_lengths, mel_specs, speaker_ids, stopAt) ==
    [op |-> op, characters |-> characters, text_lengths |-> text_lengths,
     mel_specs |-> mel_specs, speaker_ids |-> speaker_ids, stopAt |-> stopAt,
     cache |-> NoneT,            \* self.speaker_embeddings when the call ends
     cache_at_compute |-> NoneT, \* the same as compute_speaker_embedding starts
     log |-> <<>>,               \* the components invoked, in order
     err |-> "none",             \* the exception raised
     ret |-> <<>>,               \* the tuple returned
     twin_ret |-> <<>>,          \* the tuple the second instance returned
     mask |-> NoneT,             \* the validity mask
     encoder_outputs |-> NoneT,  \* what the encoder gave
     fused_with |-> NoneT,       \* the vector given to the fusion
     decoder_input |-> NoneT,    \* what the fusion step left
     raw |-> NoneT,              \* the decoder's mel output
     post |-> NoneT]             \* the postnet's output

NoCall == Call("none", NoneT, NoneT, NoneT, NoneT, 0)

\* the layers outside this file may reject inconsistent lengths
EncoderMayRaise(characters, text_lengths) ==
    \E i \in 1..Len(text_lengths.val) : text_lengths.val[i] > characters.shape[2]

DecoderMayRaise(characters, text_lengths) ==
    MaxSeq(text_lengths.val) # characters.shape[2]

ForwardEnvs(characters, text_lengths) ==
    {"ok"}
    \cup (IF EncoderMayRaise(characters, text_lengths) THEN {"encoder_raises"} ELSE {})
    \cup (IF DecoderMayRaise(characters, text_lengths) THEN {"decoder_raises"} ELSE {})

\* the decoder cannot take an input whose channels are not decoder_dim
DecoderRejects(x) == x.shape[3] # decoder_dim(num_speakers)

\* forward (lines 74-93) on the heap h, from the cache cache0
forward(h, cache0, characters, text_lengths, mel_specs, speaker_ids, env) ==
    LET c0 == Call("forward", characters, text_lengths, mel_specs, speaker_ids, 0)
        c1 == _init_states
        mask == sequence_mask(text_lengths)
        embedded_inputs == transpose12(embedding(characters))
        cs == compute_speaker_embedding(c1, speaker_ids)
        log4 == <<"_init_states", "sequence_mask", "embedding", "compute_speaker_embedding">>
        encoder_outputs == Encoder(embedded_inputs)
        log5 == Append(log4, "encoder")
        fusable == num_speakers <= 1 \/ IsTensor(cs.cache)
        fused == fuse_speaker(encoder_outputs, cs.cache)
        log6 == IF num_speakers > 1 THEN Append(log5, "_concat_speaker_embedding") ELSE log5
        log7 == Append(log6, "decoder")
        o == DecoderForward(h[decoder], "decoder", fused, mel_specs, mask)
        postnet_outputs == Postnet(o[1])
        summed == residual(o[1], postnet_outputs)
        shaped == shape_outputs(o[1], summed, o[2])
        log10 == log7 \o <<"postnet", "add", "shape_outputs">>
        backward == IF bidirectional_decoder
                    THEN _backward_inference(h, mel_specs, fused, mask)
                    ELSE <<>>
        log11 == IF bidirectional_decoder THEN Append(log10, "decoder_backward") ELSE log10
        c4 == [c0 EXCEPT !.cache = cs.cache, !.cache_at_compute = c1, !.mask = mask]
        c5 == [c4 EXCEPT !.encoder_outputs = encoder_outputs]
    IN  IF cs.raised
        THEN [c4 EXCEPT !.log = Append(log4, "raise"), !.err = "RuntimeError"]
        ELSE IF env = "encoder_raises"
        THEN [c5 EXCEPT !.log = Append(log5, "raise"), !.err = "ShapeError",
                        !.encoder_outputs = NoneT]
        ELSE IF ~fusable
        THEN [c5 EXCEPT !.log = Append(log6, "raise"), !.err = "AttributeError"]
        ELSE IF env = "decoder_raises" \/ DecoderRejects(fused)
        THEN [c5 EXCEPT !.log = Append(log7, "raise"), !.err = "ShapeError",
                        !.fused_with = IF num_speakers > 1 THEN cs.cache ELSE NoneT,
                        !.decoder_input = fused]
        ELSE [c5 EXCEPT !.log = Append(log11, "return"),
                        !.fused_with = IF num_speakers > 1 THEN cs.cache ELSE NoneT,
                        !.decoder_input = fused,
                        !.raw = o[1], !.post = postnet_outputs,
                        !.ret = forward_return(<<shaped[1], shaped[2], shaped[3], o[3]>>,
                                               backward)]

\* inference (lines 103-123) on the heap h, from the cache cache0
inference(h, cache0, characters, speaker_ids, stopAt) ==
    LET c0 == Call("inference", characters, NoneT, NoneT, speaker_ids, stopAt)
        embedded_inputs == transpose12(embedding(characters))
        c1 == _init_states
        cs == compute_speaker_embedding(c1, speaker_ids)
        log3 == <<"embedding", "_init_states", "compute_speaker_embedding">>
        encoder_outputs == Encoder(embedded_inputs)
        log4 == Append(log3, "encoder")
        fusable == num_speakers <= 1 \/ IsTensor(cs.cache)
        fused == fuse_speaker(encoder_outputs, cs.cache)
        log5 == IF num_speakers > 1 THEN Append(log4, "_concat_speaker_embedding") ELSE log4
        log6 == Append(log5, "decoder")
        o == DecoderInference(h[decoder], fused, stopAt)
        mel_outputs_postnet == Postnet(o[1])
        summed == residual(o[1], mel_outputs_postnet)
        shaped == shape_outputs(o[1], summed, o[2])
        log9 == log6 \o <<"postnet", "add", "shape_outputs">>
        c3 == [c0 EXCEPT !.cache = cs.cache, !.cache_at_compute = c1]
        c4 == [c3 EXCEPT !.encoder_outputs = encoder_outputs]
    IN  IF cs.raised
        THEN [c3 EXCEPT !.log = Append(log3, "raise"), !.err = "RuntimeError"]
        ELSE IF ~fusable
        THEN [c4 EXCEPT !.log = Append(log5, "raise"), !.err = "AttributeError"]
        ELSE IF DecoderRejects(fused)
        THEN [c4 EXCEPT !.log = Append(log6, "raise"), !.err = "ShapeError",
                        !.fused_with = IF num_speakers > 1 THEN cs.cache ELSE NoneT,
                        !.decoder_input = fused]
        ELSE [c4 EXCEPT !.log = Append(log9, "return"),
                        !.fused_with = IF num_speakers > 1 THEN cs.cache ELSE NoneT,
                        !.decoder_input = fused,
                        !.raw = o[1], !.post = mel_outputs_postnet,
                        !.ret = inference_return(shaped[1], shaped[2], shaped[3], o[3])]

\* inference_truncated (lines 125-146) from the cache cache0: there is no
\* _init_states, and line 141 reads encoder_output, a name bound nowhere
inference_truncated(cache0, text, speaker_ids) ==
    LET c0 == Call("inference_truncated", text, NoneT, NoneT, speaker_ids, 0)
        cs == compute_speaker_embedding(cache0, speaker_ids)
        log1 == <<"compute_speaker_embedding">>
        embedded_inputs == transpose12(embedding(text))
        encoder_outputs == Encoder(embedded_inputs)
        log3 == log1 \o <<"embedding", "encoder">>
        fusable == num_speakers <= 1 \/ IsTensor(cs.cache)
        fused == fuse_speaker(encoder_outputs, cs.cache)
        log4 == IF num_speakers > 1 THEN Append(log3, "_concat_speaker_embedding") ELSE log3
        c1 == [c0 EXCEPT !.cache = cs.cache, !.cache_at_compute = cache0]
        c3 == [c1 EXCEPT !.encoder_outputs = encoder_outputs]
    IN  IF cs.raised
        THEN [c1 EXCEPT !.log = Append(log1, "raise"), !.err = "RuntimeError"]
        ELSE IF ~fusable
        THEN [c3 EXCEPT !.log = Append(log4, "raise"), !.err = "AttributeError"]
        ELSE [c3 EXCEPT !.log = Append(log4, "raise"), !.err = "NameError",
                        !.fused_with = IF num_speakers > 1 THEN cs.cache ELSE NoneT,
                        !.decoder_input = fused]

\* ----------------------------------------------------------------- inputs
RECURSIVE SeqsOf(_, _)
SeqsOf(S, n) == IF n = 0 THEN {<<>>}
                ELSE {Append(s, x) : s \in SeqsOf(S, n - 1), x \in S}

\* characters: (B, T) token ids, none of them padding
Characters == {Tensor(<<B, T>>, [i \in 1..T |-> 1], "input") :
                 B \in BatchSizes, T \in 1..MaxTime}

\* text_lengths for a batch of B: any positive lengths, also ones beyond T
TextLengths(B) == {Tensor(<<B>>, v, "input") : v \in SeqsOf(1..(MaxTime + 1), B)}

\* mel_specs: (B, T_out, 80), frame t holding t
MelSpecs(B) == {Tensor(<<B, T, decoder_output_dim>>, [t \in 1..T |-> t], "input") :
                  T \in {1, MaxTime}}

\* speaker_ids: None, or one id of the table per sample
SpeakerIds(B) == {NoneT} \cup
    {Tensor(<<B>>, v, "input") : v \in SeqsOf(0..(num_speakers - 1), B)}

\* ------------------------------------------------------------ the machine
\* __init__ (lines 31-60); the second instance differs from the first in the
\* weights of its backward decoder alone
Init ==
    /\ num_speakers \in SpeakerCounts
    /\ bidirectional_decoder \in BOOLEAN
    /\ speaker_embeddings = IF num_speakers > 1 THEN NoneT ELSE NoAttr
    /\ decoder_backward = IF bidirectional_decoder THEN deepcopy(decoder) ELSE 0
    /\ heap = [r \in {decoder, decoder + 1} |-> DecoderInitParams]
    /\ \E p \in (1..MaxParam) \ {DecoderInitParams} :
          twin_heap = IF bidirectional_decoder
                      THEN [heap EXCEPT ![decoder_backward] = p]
                      ELSE heap
    /\ last = NoCall

Forward ==
    \E characters \in Characters :
      \E text_lengths \in TextLengths(characters.shape[1]),
         mel_specs \in MelSpecs(characters.shape[1]),
         speaker_ids \in SpeakerIds(characters.shape[1]) :
        \E env \in ForwardEnvs(characters, text_lengths) :
          LET r == forward(heap, speaker_embeddings, characters, text_lengths,
                           mel_specs, speaker_ids, env)
              t == forward(twin_heap, speaker_embeddings, characters, text_lengths,
                           mel_specs, speaker_ids, env)
          IN  /\ speaker_embeddings' = r.cache
              /\ last' = [r EXCEPT !.twin_ret = t.ret]
              /\ UNCHANGED <<num_speakers, bidirectional_decoder, decoder_backward,
                             heap, twin_heap>>

Inference ==
    \E characters \in Characters :
      \E speaker_ids \in SpeakerIds(characters.shape[1]),
         stopAt \in 0..(max_steps + 1) :
          LET r == inference(heap, speaker_embeddings, characters, speaker_ids, stopAt)
              t == inference(twin_heap, speaker_embeddings, characters, speaker_ids, stopAt)
          IN  /\ speaker_embeddings' = r.cache
              /\ last' = [r EXCEPT !.twin_ret = t.ret]
              /\ UNCHANGED <<num_speakers, bidirectional_decoder, decoder_backward,
                             heap, twin_heap>>

InferenceTruncated ==
    \E text \in Characters :
      \E speaker_ids \in SpeakerIds(text.shape[1]) :
          LET r == inference_truncated(speaker_embeddings, text, speaker_ids)
          IN  /\ speaker_embeddings' = r.cache
              /\ last' = r
              /\ UNCHANGED <<num_speakers, bidirectional_decoder, decoder_backward,
                             heap, twin_heap>>

Next == Forward \/ Inference \/ InferenceTruncated

Spec == Init /\ [][Next]_vars

\* ----------------------------------------------------------------- claims
Has(log, e) == \E i \in 1..Len(log) : log[i] = e
Count(log, e) == Cardinality({i \in 1..Len(log) : log[i] = e})
Idx(log, e) == CHOOSE i \in 1..Len(log) : log[i] = e
Called == last.op # "none"
Returned == last.err = "none"
Multi == num_speakers > 1
LengthsFit == MaxSeq(last.text_lengths.val) = last.characters.shape[2]

\* C1: in a model built with num_speakers > 1, a call of forward, inference or
\* inference_truncated without speaker_ids raises the missing-speaker error of
\* compute_speaker_embedding before the encoder runs and returns nothing; in a
\* model built with num_speakers <= 1, forward and inference without
\* speaker_ids never raise that error: inference returns its four outputs, and
\* forward returns its outputs whenever the lengths fit the token tensor.
C1_MissingSpeakerId ==
    (Called /\ ~IsTensor(last.speaker_ids)) =>
        IF Multi
        THEN /\ last.err = "RuntimeError"
             /\ last.ret = <<>>
             /\ ~Has(last.log, "encoder")
        ELSE /\ last.op = "inference" => (Returned /\ Len(last.ret) = 4)
             /\ last.op = "forward" =>
                  /\ last.err \in {"none", "ShapeError"}
                  /\ Returned => Len(last.ret) >= 4
                  /\ LengthsFit => Returned

C1_Witness ==
    /\ Multi
    /\ last.op = "inference"
    /\ ~IsTensor(last.speaker_ids)
    /\ last.err = "RuntimeError"

\* C2: every entry point resets the cached speaker vector before the speaker
\* embedding is computed, so compute_speaker_embedding never starts from a
\* cached vector, and a call that fails for a missing speaker id leaves the
\* cache absent.
C2_CacheResetAtEntry ==
    Called =>
        /\ ~IsTensor(last.cache_at_compute)
        /\ last.err = "RuntimeError" => ~IsTensor(speaker_embeddings)

C4_PathIndependence ==
    bidirectional_decoder =>
        /\ decoder_backward # decoder
        /\ heap[decoder] = DecoderInitParams
        /\ twin_heap[decoder] = heap[decoder]
        /\ (last.op = "forward" /\ Returned) =>
              /\ Len(last.ret) = 6
              /\ Len(last.twin_ret) = 6
              /\ \A i \in 1..4 : last.ret[i] = last.twin_ret[i]

C4_Witness ==
    /\ bidirectional_decoder
    /\ last.op = "forward"
    /\ Returned
    /\ Len(last.ret) = 6
    /\ Len(last.twin_ret) = 6
    /\ last.ret[5] # last.twin_ret[5]

\* C5: inference and inference_truncated never run the backward decoder, and
\* inference returns exactly four outputs, none of them the backward decoder's;
\* forward runs it only when bidirectional_decoder is set, once, after the
\* decoder and the postnet, and returns its two outputs as elements 5 and 6.
C5_BackwardOnlyInForward ==
    Called =>
        /\ last.op # "forward" => ~Has(last.log, "decoder_backward")
        /\ (last.op = "inference" /\ Returned) =>
              /\ Len(last.ret) = 4
              /\ \A i \in 1..4 : last.ret[i].by # "decoder_backward"
        /\ last.op = "forward" =>
              /\ Count(last.log, "decoder_backward") =
                    (IF bidirectional_decoder /\ Returned THEN 1 ELSE 0)
              /\ Has(last.log, "decoder_backward") =>
                    /\ Idx(last.log, "decoder") < Idx(last.log, "decoder_backward")
                    /\ Idx(last.log, "postnet") < Idx(last.log, "decoder_backward")
              /\ Returned =>
                    /\ Len(last.ret) = (IF bidirectional_decoder THEN 6 ELSE 4)
                    /\ \A i \in 1..Len(last.ret) :
                          (last.ret[i].by = "decoder_backward") <=> (i > 4)

C5_Witness ==
    /\ bidirectional_decoder
    /\ last.op = "inference"
    /\ Returned
    /\ Len(last.ret) = 4

\* C6: in forward the validity mask is as wide as the token tensor's time
\* dimension, and a text_lengths value beyond that dimension makes the call
\* fail with a shape error before the encoder or the decoder runs.
C6_MaskShapeChecked ==
    last.op = "forward" =>
        /\ last.mask.shape[2] = last.characters.shape[2]
        /\ EncoderMayRaise(last.characters, last.text_lengths) =>
              /\ last.err = "ShapeError"
              /\ ~Has(last.log, "encoder")
              /\ ~Has(last.log, "decoder")

\* C7: in a multi-speaker model forward, inference and inference_truncated all
\* fuse the speaker vector right after the encoder and before any decoder, by
\* concatenation on the channel axis at every time position of the encoder
\* output; in a single-speaker model none of them fuses anything.
C7_FusionPolicy ==
    (Called /\ Has(last.log, "encoder") /\ IsTensor(last.encoder_outputs)) =>
        IF Multi
        THEN /\ Count(last.log, "_concat_speaker_embedding") = 1
             /\ Idx(last.log, "_concat_speaker_embedding") = Idx(last.log, "encoder") + 1
             /\ Has(last.log, "decoder") =>
                  Idx(last.log, "_concat_speaker_embedding") < Idx(last.log, "decoder")
             /\ last.decoder_input.by = "concat_speaker"
             /\ last.decoder_input.shape =
                  <<last.encoder_outputs.shape[1], last.encoder_outputs.shape[2],
                    encoder_dim + speaker_embedding_dim>>
             /\ last.decoder_input.val = last.encoder_outputs.val \o last.fused_with.val
        ELSE /\ ~Has(last.log, "_concat_speaker_embedding")
             /\ last.decoder_input = last.encoder_outputs

C7_Witness ==
    /\ Multi
    /\ last.op = "inference_truncated"
    /\ Has(last.log, "_concat_speaker_embedding")
    /\ last.decoder_input.by = "concat_speaker"

\* C8: inference_truncated, given the speaker id it needs, completes and
\* returns its four outputs.
C8_StreamingCompletes ==
    (last.op = "inference_truncated" /\ (~Multi \/ IsTensor(last.speaker_ids))) =>
        /\ Returned
        /\ Len(last.ret) = 4

\* C9: in forward and inference the refined mel output is the raw decoder
\* output plus the postnet of that raw output, the postnet runs once and after
\* the decoder, and the raw and refined outputs returned have one shape,
\* (batch, frames, mel channels).
C9_PostnetResidual ==
    (last.op \in {"forward", "inference"} /\ Returned) =>
        /\ Len(last.ret) >= 4
        /\ last.raw.by = "decoder"
        /\ last.ret[1].val = last.raw.val
        /\ last.ret[2].val =
              [i \in 1..Len(last.raw.val) |-> last.raw.val[i] + last.post.val[i]]
        /\ last.post = Postnet(last.raw)
        /\ Count(last.log, "postnet") = 1
        /\ Idx(last.log, "decoder") < Idx(last.log, "postnet")
        /\ last.ret[1].shape = last.ret[2].shape
        /\ last.ret[1].shape =
              <<last.raw.shape[1], last.raw.shape[3], decoder_output_dim>>

C9_Witness ==
    /\ last.op = "forward"
    /\ Returned
    /\ Len(last.ret) >= 4
    /\ last.ret[2].val # last.ret[1].val
    /\ last.ret[2].val # last.post.val

\* C10: in a multi-speaker model, whatever calls came before, a call that
\* reaches the fusion step fuses a vector that is present and is the embedding
\* of the speaker_ids of that very call; in a single-speaker model the cache
\* never holds a vector and nothing is fused, whatever speaker_ids are given.
C10_FusedVectorIsThisCalls ==
    Called =>
        IF Multi
        THEN Has(last.log, "_concat_speaker_embedding") =>
                /\ IsTensor(last.speaker_ids)
                /\ IsTensor(last.fused_with)
                /\ last.fused_with = _compute_speaker_embedding(last.speaker_ids)
        ELSE /\ ~IsTensor(speaker_embeddings)
             /\ last.fused_with = NoneT
             /\ ~Has(last.log, "_concat_speaker_embedding")

C10_Witness ==
    /\ Multi
    /\ last.op = "inference_truncated"
    /\ Has(last.log, "_concat_speaker_embedding")
    /\ IsTensor(last.cache_at_compute)
    /\ IsTensor(last.fused_with)
    /\ last.cache_at_compute # last.fused_with

====
